---- MODULE Spec2Model ----
(***************************************************************************)
(* A model of the EmbeddingIndex handle of the nludb python client         *)
(* (src/src/nludb/embedding_index.py): the requests each method builds,    *)
(* the single post it hands them to, and what it returns to its caller.    *)
(* The collaborator (ApiBase.post and the remote service behind it) and    *)
(* the request types are not part of the source file; they are modelled    *)
(* from the specification and marked as such.                              *)
(***************************************************************************)
EXTENDS Integers, Sequences, FiniteSets, TLC

VARIABLES handles, srv, last, ncalls

vars == <<handles, srv, last, ncalls>>

(***************************************************************************)
(* Python values.  Every dynamically typed value of the program is a       *)
(* tagged record, so that None, a str, a list and a dict stay distinct.    *)
(* A str is the sequence of the code points of its characters, so that any *)
(* character can occur in it.  A dict is its insertion-ordered sequence of *)
(* <<key, value>> pairs.  A float is NaN, an infinity, or a finite value    *)
(* held as its sign, the significant decimal digits of its shortest repr   *)
(* (no zero at either end, none at all for zero) and the place of the      *)
(* decimal point: the value is 0.d1d2..dn times ten to the decpt.  The     *)
(* shortest repr is the one decimal of the fewest digits that reads back   *)
(* as the float, so a float and its digits determine each other.           *)
(***************************************************************************)
PyNone == [t |-> "none"]

\* The str of the code points cs.
PyStr(cs) == [t |-> "str", s |-> cs]

PyInt(n) == [t |-> "int", n |-> n]

PyBool(b) == [t |-> "bool", b |-> b]

PyList(xs) == [t |-> "list", xs |-> xs]

PyDict(kv) == [t |-> "dict", kv |-> kv]

\* The finite float (-1)^neg * 0.d1..dn * 10^decpt of the digits ds.
PyFloat(neg, ds, decpt) ==
  [t |-> "float", f |-> [kind |-> "fin", neg |-> neg, ds |-> ds, decpt |-> decpt]]

\* float('nan')
PyNaN == [t |-> "float", f |-> [kind |-> "nan", neg |-> FALSE, ds |-> <<>>, decpt |-> 0]]

\* float('inf'), and float('-inf') when neg
PyInf(neg) == [t |-> "float", f |-> [kind |-> "inf", neg |-> neg, ds |-> <<>>, decpt |-> 0]]

IsNaN(v) == v.t = "float" /\ v.f.kind = "nan"

RECURSIVE StripLeft(_)
\* The digits without their leading zeros.
StripLeft(ds) == IF Len(ds) > 0 /\ ds[1] = 0 THEN StripLeft(Tail(ds)) ELSE ds

RECURSIVE StripRight(_)
\* The digits without their trailing zeros.
StripRight(ds) ==
  IF Len(ds) > 0 /\ ds[Len(ds)] = 0 THEN StripRight(SubSeq(ds, 1, Len(ds) - 1)) ELSE ds

(***************************************************************************)
(* float() of a decimal, as CPython computes it: the double nearest to the *)
(* decimal, ties to the even mantissa, an infinity from 2^1024 - 2^970 on, *)
(* subnormal below 2^-1022; and the digits float.__repr__ gives that       *)
(* double, the shortest that read back as it and of these the nearest.     *)
(* Both are computed exactly, on naturals of any size: a natural is the    *)
(* sequence of its limbs in base 2^15, the least significant first, with   *)
(* no zero limb on top, and 0 is <<>>.                                     *)
(***************************************************************************)
Limb == 2^15

\* The limbs without the zero limbs on top.
BigTrim(a) ==
  IF \A i \in 1..Len(a) : a[i] = 0 THEN <<>>
  ELSE SubSeq(a, 1, CHOOSE i \in 1..Len(a) :
                      a[i] # 0 /\ \A j \in (i + 1)..Len(a) : a[j] = 0)

\* The carry into place i of the sums y, each below 2 * Limb - 1: the
\* place below makes one when it is a full limb or more, and passes the
\* carry it gets when it is one short of a full limb.
CarryInto(y, i) ==
  IF i = 1 THEN 0
  ELSE IF y[i - 1] # Limb - 1 THEN (IF y[i - 1] >= Limb THEN 1 ELSE 0)
  ELSE IF \E j \in 1..(i - 2) : y[j] >= Limb /\ \A k \in (j + 1)..(i - 1) : y[k] = Limb - 1
    THEN 1
  ELSE 0

\* The natural number whose place i holds y[i], each below 2 * Limb - 1.
BigCarry(y) ==
  BigTrim([i \in 1..(Len(y) + 1) |->
             ((IF i <= Len(y) THEN y[i] ELSE 0) + CarryInto(y, i)) % Limb])

\* a * m + c, for 0 <= m < 2^15 and 0 <= c < 2^15
BigMulAdd(a, m, c) ==
  IF Len(a) = 0 \/ m = 0 THEN (IF c = 0 THEN <<>> ELSE <<c>>)
  ELSE LET x == [i \in 1..Len(a) |-> a[i] * m + (IF i = 1 THEN c ELSE 0)]
       IN BigCarry([i \in 1..(Len(a) + 1) |->
                      (IF i <= Len(a) THEN x[i] % Limb ELSE 0)
                        + (IF i > 1 THEN x[i - 1] \div Limb ELSE 0)])

\* a + b
BigAdd(a, b) ==
  LET n == IF Len(a) > Len(b) THEN Len(a) ELSE Len(b)
  IN BigCarry([i \in 1..n |->
                 (IF i <= Len(a) THEN a[i] ELSE 0) + (IF i <= Len(b) THEN b[i] ELSE 0)])

\* The borrow from place i of a - b: a place below took one when its limb
\* of a is the smaller, and passes the borrow on when the limbs are equal.
BorrowFrom(a, b, i) ==
  IF i = 1 THEN 0
  ELSE IF a[i - 1] # b[i - 1] THEN (IF a[i - 1] < b[i - 1] THEN 1 ELSE 0)
  ELSE IF \E j \in 1..(i - 2) : a[j] < b[j] /\ \A k \in (j + 1)..(i - 1) : a[k] = b[k]
    THEN 1
  ELSE 0

\* a - b, for a >= b
BigSub(a, b) ==
  IF Len(b) = 0 THEN a
  ELSE
  LET bb == [i \in 1..Len(a) |-> IF i <= Len(b) THEN b[i] ELSE 0]
  IN BigTrim([i \in 1..Len(a) |-> (a[i] - bb[i] - BorrowFrom(a, bb, i) + Limb) % Limb])

\* 1, 0 or -1 as a is above, equal to or below b: the longer is the
\* larger, and of two of one length the larger at the highest limb in
\* which they differ.
BigCmp(a, b) ==
  IF Len(a) > Len(b) THEN 1
  ELSE IF Len(a) < Len(b) THEN 0 - 1
  ELSE IF \A i \in 1..Len(a) : a[i] = b[i] THEN 0
  ELSE LET top == CHOOSE i \in 1..Len(a) :
                    a[i] # b[i] /\ \A j \in (i + 1)..Len(a) : a[j] = b[j]
       IN IF a[top] > b[top] THEN 1 ELSE 0 - 1

BigIsEven(a) == Len(a) = 0 \/ a[1] % 2 = 0

\* a * 2^k
BigShl(a, k) ==
  IF Len(a) = 0 THEN <<>>
  ELSE [i \in 1..(k \div 15) |-> 0] \o BigMulAdd(a, 2^(k % 15), 0)

RECURSIVE BitLen(_)
\* The number of bits of a limb.
BitLen(x) == IF x = 0 THEN 0 ELSE 1 + BitLen(x \div 2)

\* The number of bits of a: 2^(n-1) <= a < 2^n, and 0 for 0.
BigBitLen(a) == IF Len(a) = 0 THEN 0 ELSE 15 * (Len(a) - 1) + BitLen(a[Len(a)])

\* a * 10^16
BigMul10To16(a) ==
  BigMulAdd(BigMulAdd(BigMulAdd(BigMulAdd(a, 10000, 0), 10000, 0), 10000, 0), 10000, 0)

RECURSIVE BigMulPow10(_, _)
\* a * 10^k
BigMulPow10(a, k) ==
  IF k = 0 \/ Len(a) = 0 THEN a
  ELSE IF k >= 64
    THEN BigMulPow10(BigMul10To16(BigMul10To16(BigMul10To16(BigMul10To16(a)))), k - 64)
  ELSE IF k >= 16 THEN BigMulPow10(BigMul10To16(a), k - 16)
  ELSE IF k >= 4 THEN BigMulPow10(BigMulAdd(a, 10000, 0), k - 4)
  ELSE BigMulPow10(BigMulAdd(a, 10, 0), k - 1)

RECURSIVE BigOfDigitsFrom(_, _, _)
BigOfDigitsFrom(ds, i, acc) ==
  IF i > Len(ds) THEN acc ELSE BigOfDigitsFrom(ds, i + 1, BigMulAdd(acc, 10, ds[i]))

\* The natural number of the decimal digits ds.
BigOfDigits(ds) == BigOfDigitsFrom(ds, 1, <<>>)

RECURSIVE LimbOfQuotient(_, _, _, _)
\* The largest x below 2^15 with x * t <= r, one bit at a time from the
\* highest.
LimbOfQuotient(r, t, bit, acc) ==
  IF bit < 0 THEN acc
  ELSE LET x == acc + 2^bit
       IN IF BigCmp(BigMulAdd(t, x, 0), r) <= 0
            THEN LimbOfQuotient(r, t, bit - 1, x)
            ELSE LimbOfQuotient(r, t, bit - 1, acc)

RECURSIVE BigDivLimbs(_, _, _)
\* The quotient and the remainder of r by d, for a quotient of at most
\* i + 1 limbs, one limb at a time from the highest.
BigDivLimbs(r, d, i) ==
  IF i < 0 THEN [q |-> <<>>, r |-> r]
  ELSE LET t == [j \in 1..i |-> 0] \o d
           x == LimbOfQuotient(r, t, 14, 0)
           rest == BigDivLimbs(BigSub(r, BigMulAdd(t, x, 0)), d, i - 1)
       IN [q |-> Append(rest.q, x), r |-> rest.r]

\* floor(n / (d * 2^e)), which is below 2^60, and what is left, with the
\* divisor it is left of.
ScaledQuotient(n, d, e) ==
  LET nn == IF e < 0 THEN BigShl(n, 0 - e) ELSE n
      dd == IF e > 0 THEN BigShl(d, e) ELSE d
      qr == BigDivLimbs(nn, dd, 3)
  IN [q |-> BigTrim(qr.q), r |-> qr.r, d |-> dd, e |-> e]

\* The double nearest to the decimal 0.d1..dn * 10^decpt, d1 not 0: its
\* mantissa f and exponent e (the double is f * 2^e, f below 2^53, e at
\* least -1074), or zero, or an infinity.
StrToD(ds, decpt) ==
  LET e10 == decpt - Len(ds)
      mant == BigOfDigits(ds)
      num == IF e10 > 0 THEN BigMulPow10(mant, e10) ELSE mant
      den == IF e10 < 0 THEN BigMulPow10(<<1>>, 0 - e10) ELSE <<1>>
      e0 == BigBitLen(num) - BigBitLen(den) - 53
      e1 == IF e0 < 0 - 1074 THEN 0 - 1074 ELSE e0
      first == ScaledQuotient(num, den, e1)
      sq == IF BigBitLen(first.q) >= 54 THEN ScaledQuotient(num, den, e1 + 1) ELSE first
      half == BigCmp(BigShl(sq.r, 1), sq.d)
      up == half > 0 \/ (half = 0 /\ ~BigIsEven(sq.q))
      f1 == IF up THEN BigAdd(sq.q, <<1>>) ELSE sq.q
      carry == BigBitLen(f1) >= 54
      f2 == IF carry THEN BigShl(<<1>>, 52) ELSE f1
      e2 == IF carry THEN sq.e + 1 ELSE sq.e
  IN IF Len(f2) = 0 THEN [kind |-> "zero", f |-> <<>>, e |-> 0]
     ELSE IF e2 + BigBitLen(f2) > 1024 THEN [kind |-> "inf", f |-> <<>>, e |-> 0]
     ELSE [kind |-> "fin", f |-> f2, e |-> e2]

\* Whether the decimals up to (r + m) / s reach 1: the upper end of the
\* interval of the decimals that read back as the double, which the
\* interval holds when the mantissa is even.
ReachesOne(r, m, s, even) ==
  IF even THEN BigCmp(BigAdd(r, m), s) >= 0 ELSE BigCmp(BigAdd(r, m), s) > 0

RECURSIVE ScaleUp(_, _)
\* s times ten until the decimals of the interval are below 1.
ScaleUp(st, even) ==
  IF ReachesOne(st.r, st.mp, st.s, even)
    THEN ScaleUp([st EXCEPT !.s = BigMulAdd(st.s, 10, 0), !.k = st.k + 1], even)
    ELSE st

RECURSIVE ScaleDown(_, _)
\* r times ten while the decimals of the interval stay below 1/10.
ScaleDown(st, even) ==
  IF ~ReachesOne(BigMulAdd(st.r, 10, 0), BigMulAdd(st.mp, 10, 0), st.s, even)
    THEN ScaleDown([st EXCEPT !.r = BigMulAdd(st.r, 10, 0), !.mp = BigMulAdd(st.mp, 10, 0),
                              !.mm = BigMulAdd(st.mm, 10, 0), !.k = st.k - 1], even)
    ELSE st

RECURSIVE SmallQuotient(_, _, _)
\* The quotient, below 10, and the remainder of r by s.
SmallQuotient(r, s, q) ==
  IF BigCmp(r, s) >= 0 THEN SmallQuotient(BigSub(r, s), s, q + 1) ELSE [q |-> q, r |-> r]

RECURSIVE ShortestDigits(_, _, _, _, _, _)
\* The digits of r / s, one at a time, up to the first digit from which
\* the decimal reads back as the double; the last digit is rounded to the
\* nearer side.
ShortestDigits(r, s, mp, mm, even, acc) ==
  LET qr == SmallQuotient(BigMulAdd(r, 10, 0), s, 0)
      mp1 == BigMulAdd(mp, 10, 0)
      mm1 == BigMulAdd(mm, 10, 0)
      low == IF even THEN BigCmp(qr.r, mm1) <= 0 ELSE BigCmp(qr.r, mm1) < 0
      high == ReachesOne(qr.r, mp1, s, even)
  IN IF ~low /\ ~high THEN ShortestDigits(qr.r, s, mp1, mm1, even, Append(acc, qr.q))
     ELSE IF low /\ ~high THEN Append(acc, qr.q)
     ELSE IF high /\ ~low THEN Append(acc, qr.q + 1)
     ELSE IF BigCmp(BigShl(qr.r, 1), s) < 0 THEN Append(acc, qr.q)
     ELSE Append(acc, qr.q + 1)

\* The digits and the decimal point of float.__repr__ on the double
\* f * 2^e, from an estimate k of where the decimal point is.  The double
\* is r / s, and the decimals that read back as it lie from r - mm to
\* r + mp; below a power of two the doubles are half as far apart.
DToA(f, e, k) ==
  LET even == BigIsEven(f)
      narrow == f = BigShl(<<1>>, 52) /\ e > 0 - 1074
      r0 == BigShl(f, (IF e > 0 THEN e ELSE 0) + (IF narrow THEN 2 ELSE 1))
      s0 == BigShl(<<1>>, (IF e < 0 THEN 0 - e ELSE 0) + (IF narrow THEN 2 ELSE 1))
      mm0 == BigShl(<<1>>, IF e > 0 THEN e ELSE 0)
      mp0 == IF narrow THEN BigShl(mm0, 1) ELSE mm0
      st0 == [r |-> IF k < 0 THEN BigMulPow10(r0, 0 - k) ELSE r0,
              s |-> IF k > 0 THEN BigMulPow10(s0, k) ELSE s0,
              mp |-> IF k < 0 THEN BigMulPow10(mp0, 0 - k) ELSE mp0,
              mm |-> IF k < 0 THEN BigMulPow10(mm0, 0 - k) ELSE mm0,
              k |-> k]
      st == ScaleDown(ScaleUp(st0, even), even)
  IN [ds |-> ShortestDigits(st.r, st.s, st.mp, st.mm, even, <<>>), decpt |-> st.k]

\* float() of the decimal 0.d1..dn * 10^decpt, whatever zeros the digits
\* start and end with.  A decimal of up to 15 significant digits between
\* 1e-307 and 1e308 is the shortest repr of its double (DBL_DIG is 15), so
\* its digits are the float's; from 1e310 on the float is an infinity and
\* below 1e-330 it is zero.
FloatOf(neg, ds, decpt) ==
  LET l == StripLeft(ds)
      r == StripRight(l)
      p == decpt - (Len(ds) - Len(l))
  IN IF Len(r) = 0 THEN PyFloat(neg, <<>>, 0)
     ELSE IF p > 310 THEN PyInf(neg)
     ELSE IF p < 0 - 330 THEN PyFloat(neg, <<>>, 0)
     ELSE IF Len(r) <= 15 /\ p >= 0 - 306 /\ p <= 308 THEN PyFloat(neg, r, p)
     ELSE LET x == StrToD(r, p) IN
          IF x.kind = "zero" THEN PyFloat(neg, <<>>, 0)
          ELSE IF x.kind = "inf" THEN PyInf(neg)
          ELSE LET a == DToA(x.f, x.e, p) IN PyFloat(neg, a.ds, a.decpt)

\* The characters ' ' (32) to '_' (95), in the order of their codes.
PrintableLow ==
  " !\"#$%&'()*+,-./0123456789:;<=>?@ABCDEFGHIJKLMNOPQRSTUVWXYZ[\\]^_"

\* The characters 'a' (97) to '~' (126), in the order of their codes.
PrintableHigh == "abcdefghijklmnopqrstuvwxyz{|}~"

\* The characters a literal of this module is written with.
Alphabet == PrintableLow \o PrintableHigh \o "\n\t\r\f"

\* The code point of the character at a place of Alphabet.
CodeAt(i) ==
  IF i <= 64 THEN 31 + i
  ELSE IF i <= 94 THEN 32 + i
  ELSE IF i = 95 THEN 10
  ELSE IF i = 96 THEN 9
  ELSE IF i = 97 THEN 13
  ELSE 12

OrdTable ==
  [c \in {SubSeq(Alphabet, i, i) : i \in 1..Len(Alphabet)} |->
     CodeAt(CHOOSE i \in 1..Len(Alphabet) : SubSeq(Alphabet, i, i) = c)]

\* ord(c) for a character of Alphabet
Ord(c) == OrdTable[c]

\* The code points of a literal.
Codes(s) == [i \in 1..Len(s) |-> Ord(SubSeq(s, i, i))]

\* The str a literal of this module denotes: PyText("ab") is 'ab'.
PyText(s) == PyStr(Codes(s))

IsNone(v) == v.t = "none"

\* type(v) == str
IsStr(v) == v.t = "str"

\* isinstance(v, dict) or isinstance(v, list)
IsStructured(v) == v.t = "dict" \/ v.t = "list"

\* The number a bool or an int stands for (bool is a subclass of int).
NumOf(v) == IF v.t = "bool" THEN (IF v.b THEN 1 ELSE 0) ELSE v.n

IsNum(v) == v.t = "bool" \/ v.t = "int" \/ v.t = "float"

RECURSIVE NatDigits(_)
\* The decimal digits of a natural number.
NatDigits(n) == IF n < 10 THEN <<n>> ELSE Append(NatDigits(n \div 10), n % 10)

\* A number as sign, digits and decimal point, the form a float is held in.
NumForm(v) ==
  IF v.t = "float" THEN v.f
  ELSE LET n == NumOf(v)
           ds == NatDigits(IF n < 0 THEN 0 - n ELSE n)
       IN FloatOf(n < 0, ds, Len(ds)).f

\* == on two numbers: NaN equals nothing, 0.0 == -0.0, 1 == 1.0 == True.
NumEq(a, b) ==
  LET x == NumForm(a)
      y == NumForm(b)
  IN IF x.kind = "nan" \/ y.kind = "nan" THEN FALSE
     ELSE IF x.kind = "fin" /\ y.kind = "fin" /\ Len(x.ds) = 0 THEN Len(y.ds) = 0
     ELSE x = y

RECURSIVE PyEq(_, _)
\* Python's == on two values that share no object: numbers by value
\* (True == 1 == 1.0, NaN unequal to every number), lists element by
\* element, dicts as key/value sets whatever their order.
PyEq(a, b) ==
  IF IsNum(a) /\ IsNum(b) THEN NumEq(a, b)
  ELSE IF a.t # b.t THEN FALSE
  ELSE IF a.t = "none" THEN TRUE
  ELSE IF a.t = "str" THEN a.s = b.s
  ELSE IF a.t = "list"
    THEN /\ Len(a.xs) = Len(b.xs)
         /\ \A i \in 1..Len(a.xs) : PyEq(a.xs[i], b.xs[i])
  ELSE /\ Len(a.kv) = Len(b.kv)
       /\ \A i \in 1..Len(a.kv) : \E j \in 1..Len(b.kv) :
            PyEq(a.kv[i][1], b.kv[j][1]) /\ PyEq(a.kv[i][2], b.kv[j][2])

(***************************************************************************)
(* json.dumps, with the defaults the source uses: separators ", " and      *)
(* ": ", dict keys coerced to strings, a float as float.__repr__ writes it  *)
(* or as NaN, Infinity, -Infinity, and ensure_ascii: inside a string       *)
(* '"' and '\' take a backslash and every character outside ' '..'~' is    *)
(* written as an escape, \b \f \n \r \t for these five, \uXXXX for the     *)
(* others, a character beyond U+FFFF as the two escapes of its surrogate   *)
(* pair.  The text is a sequence of code points, as every str.             *)
(***************************************************************************)
Digit(d) == <<48 + d>>

RECURSIVE NatToStr(_)
NatToStr(n) == IF n < 10 THEN Digit(n) ELSE NatToStr(n \div 10) \o Digit(n % 10)

IntToStr(n) == IF n < 0 THEN Codes("-") \o NatToStr(0 - n) ELSE NatToStr(n)

\* The code point of a hexadecimal digit, in lower case.
HexDigit(d) == IF d < 10 THEN 48 + d ELSE 87 + d

\* '\u{0:04x}'.format(n)
UEscape(n) ==
  Codes("\\u") \o <<HexDigit(n \div 4096), HexDigit((n \div 256) % 16),
                     HexDigit((n \div 16) % 16), HexDigit(n % 16)>>

\* The text json writes for the character of code point c.
EscapeChar(c) ==
  IF c = 34 THEN Codes("\\\"")
  ELSE IF c = 92 THEN Codes("\\\\")
  ELSE IF c = 10 THEN Codes("\\n")
  ELSE IF c = 13 THEN Codes("\\r")
  ELSE IF c = 9 THEN Codes("\\t")
  ELSE IF c = 12 THEN Codes("\\f")
  ELSE IF c = 8 THEN Codes("\\b")
  ELSE IF c >= 32 /\ c <= 126 THEN <<c>>
  ELSE IF c < 65536 THEN UEscape(c)
  ELSE UEscape(55296 + ((c - 65536) \div 1024)) \o UEscape(56320 + ((c - 65536) % 1024))

RECURSIVE Escape(_)
Escape(s) ==
  IF Len(s) = 0 THEN <<>>
  ELSE EscapeChar(s[1]) \o Escape(Tail(s))

Quote(s) == Codes("\"") \o Escape(s) \o Codes("\"")

\* The characters of a sequence of digits.
DigitsText(ds) == [i \in 1..Len(ds) |-> 48 + ds[i]]

\* k times the character '0'
Zeros(k) == [i \in 1..k |-> 48]

\* float.__repr__ on a finite float other than zero, without its sign: the
\* shortest digits that read back as the float, with an exponent when the
\* decimal point is more than 16 places right of the first digit or more
\* than 3 places left of it, and with ".0" when there is no fraction.
ReprDigits(ds, decpt) ==
  LET n == Len(ds)
      x == decpt - 1
  IN IF decpt > 16 \/ decpt < 0 - 3
       THEN <<48 + ds[1]>>
            \o (IF n > 1 THEN Codes(".") \o DigitsText(Tail(ds)) ELSE <<>>)
            \o Codes("e") \o (IF x < 0 THEN Codes("-") ELSE Codes("+"))
            \o (IF x > 0 - 10 /\ x < 10 THEN Zeros(1) ELSE <<>>)
            \o NatToStr(IF x < 0 THEN 0 - x ELSE x)
     ELSE IF decpt <= 0 THEN Codes("0.") \o Zeros(0 - decpt) \o DigitsText(ds)
     ELSE IF decpt < n
       THEN DigitsText(SubSeq(ds, 1, decpt)) \o Codes(".") \o DigitsText(SubSeq(ds, decpt + 1, n))
     ELSE DigitsText(ds) \o Zeros(decpt - n) \o Codes(".0")

\* The text json writes for a float.
FloatStr(f) ==
  IF f.kind = "nan" THEN Codes("NaN")
  ELSE IF f.kind = "inf" THEN (IF f.neg THEN Codes("-Infinity") ELSE Codes("Infinity"))
  ELSE (IF f.neg THEN Codes("-") ELSE <<>>)
       \o (IF Len(f.ds) = 0 THEN Codes("0.0") ELSE ReprDigits(f.ds, f.decpt))

\* The key of a JSON object: a str as it is, an int as its digits, a float
\* as its text, a bool and None as their JSON literal.
KeyToStr(k) ==
  IF k.t = "str" THEN k.s
  ELSE IF k.t = "bool" THEN (IF k.b THEN Codes("true") ELSE Codes("false"))
  ELSE IF k.t = "int" THEN IntToStr(k.n)
  ELSE IF k.t = "float" THEN FloatStr(k.f)
  ELSE Codes("null")

RECURSIVE Dumps(_)
RECURSIVE DumpsItems(_)
RECURSIVE DumpsPairs(_)
DumpsItems(xs) ==
  IF Len(xs) = 0 THEN <<>>
  ELSE IF Len(xs) = 1 THEN Dumps(xs[1])
  ELSE Dumps(xs[1]) \o Codes(", ") \o DumpsItems(Tail(xs))

DumpsPairs(kv) ==
  IF Len(kv) = 0 THEN <<>>
  ELSE LET p == Quote(KeyToStr(kv[1][1])) \o Codes(": ") \o Dumps(kv[1][2])
       IN IF Len(kv) = 1 THEN p ELSE p \o Codes(", ") \o DumpsPairs(Tail(kv))

Dumps(v) ==
  IF v.t = "none" THEN Codes("null")
  ELSE IF v.t = "bool" THEN (IF v.b THEN Codes("true") ELSE Codes("false"))
  ELSE IF v.t = "int" THEN IntToStr(v.n)
  ELSE IF v.t = "float" THEN FloatStr(v.f)
  ELSE IF v.t = "str" THEN Quote(v.s)
  ELSE IF v.t = "list" THEN Codes("[") \o DumpsItems(v.xs) \o Codes("]")
  ELSE Codes("{") \o DumpsPairs(v.kv) \o Codes("}")

\* json.dumps(v) as the Python str it returns
JsonDumps(v) == PyStr(Dumps(v))

(***************************************************************************)
(* json.loads: a recursive-descent scan of the text from an index,         *)
(* returning the value and the index after it.  A number with a fraction   *)
(* or an exponent is the float of its decimal; NaN, Infinity and -Infinity *)
(* are read as the floats they name.                                       *)
(***************************************************************************)
\* The code point at an index of the text, -1 outside it.
At(s, i) == IF i >= 1 /\ i <= Len(s) THEN s[i] ELSE -1

\* ' ', '\n', '\t', '\r'
IsWs(c) == c = 32 \/ c = 10 \/ c = 9 \/ c = 13

IsDigit(c) == c >= 48 /\ c <= 57

DigitVal(c) == c - 48

\* Whether the text has the literal w at index i.
StartsAt(s, i, w) ==
  LET cs == Codes(w) IN
  i + Len(cs) - 1 <= Len(s) /\ SubSeq(s, i, i + Len(cs) - 1) = cs

RECURSIVE SkipWs(_, _)
SkipWs(s, i) == IF IsWs(At(s, i)) THEN SkipWs(s, i + 1) ELSE i

Bad == [ok |-> FALSE, v |-> PyNone, i |-> 0]

Good(v, i) == [ok |-> TRUE, v |-> v, i |-> i]

\* A control character, which json.loads refuses unescaped inside a string.
IsControl(c) == c >= 0 /\ c <= 31

IsHex(c) == IsDigit(c) \/ (c >= 65 /\ c <= 70) \/ (c >= 97 /\ c <= 102)

HexVal(c) == IF IsDigit(c) THEN c - 48 ELSE IF c >= 97 THEN c - 87 ELSE c - 55

\* Whether the text has four hexadecimal digits from index i.
HasHex4(s, i) == \A k \in 0..3 : IsHex(At(s, i + k))

Hex4(s, i) ==
  HexVal(At(s, i)) * 4096 + HexVal(At(s, i + 1)) * 256
    + HexVal(At(s, i + 2)) * 16 + HexVal(At(s, i + 3))

\* The code point a \u escape stands for, from the first of its digits, and
\* the index after it: a high surrogate followed by the escape of a low one
\* is the one character of the pair.
ScanUnicode(s, i) ==
  IF ~HasHex4(s, i) THEN [ok |-> FALSE, c |-> 0, i |-> i]
  ELSE LET n == Hex4(s, i) IN
    IF n >= 55296 /\ n <= 56319 /\ At(s, i + 4) = 92 /\ At(s, i + 5) = 117
      THEN IF ~HasHex4(s, i + 6) THEN [ok |-> FALSE, c |-> 0, i |-> i]
           ELSE LET m == Hex4(s, i + 6) IN
                IF m >= 56320 /\ m <= 57343
                  THEN [ok |-> TRUE, c |-> 65536 + (n - 55296) * 1024 + (m - 56320),
                        i |-> i + 10]
                  ELSE [ok |-> TRUE, c |-> n, i |-> i + 4]
      ELSE [ok |-> TRUE, c |-> n, i |-> i + 4]

\* The character an escape stands for, from the character after the
\* backslash, and the index after the escape.
ScanEscape(s, i) ==
  LET e == At(s, i) IN
  IF e = 34 \/ e = 92 \/ e = 47 THEN [ok |-> TRUE, c |-> e, i |-> i + 1]
  ELSE IF e = 98 THEN [ok |-> TRUE, c |-> 8, i |-> i + 1]
  ELSE IF e = 102 THEN [ok |-> TRUE, c |-> 12, i |-> i + 1]
  ELSE IF e = 110 THEN [ok |-> TRUE, c |-> 10, i |-> i + 1]
  ELSE IF e = 114 THEN [ok |-> TRUE, c |-> 13, i |-> i + 1]
  ELSE IF e = 116 THEN [ok |-> TRUE, c |-> 9, i |-> i + 1]
  ELSE IF e = 117 THEN ScanUnicode(s, i + 1)
  ELSE [ok |-> FALSE, c |-> 0, i |-> i]

RECURSIVE ScanString(_, _, _)
\* The characters after an opening quote, up to the closing one.
ScanString(s, i, acc) ==
  LET c == At(s, i) IN
  IF c = -1 \/ IsControl(c) THEN Bad
  ELSE IF c = 34 THEN Good(PyStr(acc), i + 1)
  ELSE IF c = 92
    THEN LET e == ScanEscape(s, i + 1) IN
         IF e.ok THEN ScanString(s, e.i, Append(acc, e.c)) ELSE Bad
  ELSE ScanString(s, i + 1, Append(acc, c))

RECURSIVE ScanDigits(_, _, _)
ScanDigits(s, i, acc) ==
  IF IsDigit(At(s, i)) THEN ScanDigits(s, i + 1, acc * 10 + DigitVal(At(s, i)))
  ELSE [n |-> acc, i |-> i]

RECURSIVE ScanDigitSeq(_, _, _)
\* The run of digits from index i, digit by digit, and the index after it.
ScanDigitSeq(s, i, acc) ==
  IF IsDigit(At(s, i)) THEN ScanDigitSeq(s, i + 1, Append(acc, DigitVal(At(s, i))))
  ELSE [ds |-> acc, i |-> i]

\* The digits of the fraction that starts at i and the index after it; no
\* digits and i when there is none.
ScanFraction(s, i) ==
  IF At(s, i) = 46 /\ IsDigit(At(s, i + 1)) THEN ScanDigitSeq(s, i + 1, <<>>)
  ELSE [ds |-> <<>>, i |-> i]

\* The exponent that starts at i and the index after it; 0 and i when
\* there is none.
ScanExponent(s, i) ==
  IF At(s, i) = 101 \/ At(s, i) = 69
    THEN LET minus == At(s, i + 1) = 45
             j == IF At(s, i + 1) = 43 \/ minus THEN i + 2 ELSE i + 1
         IN IF IsDigit(At(s, j))
              THEN LET r == ScanDigits(s, j, 0)
                   IN [n |-> IF minus THEN 0 - r.n ELSE r.n, i |-> r.i]
              ELSE [n |-> 0, i |-> i]
    ELSE [n |-> 0, i |-> i]

\* A number: an optional '-', then 0 or digits that do not start with 0,
\* then an optional fraction and an optional exponent, which make it a float.
ScanNumber(s, i) ==
  LET neg == At(s, i) = 45
      j == IF neg THEN i + 1 ELSE i
  IN IF ~IsDigit(At(s, j)) THEN Bad
     ELSE LET r == IF At(s, j) = 48 THEN [ds |-> <<0>>, i |-> j + 1]
                   ELSE ScanDigitSeq(s, j, <<>>)
              fr == ScanFraction(s, r.i)
              e == ScanExponent(s, fr.i)
          IN IF e.i = r.i
               THEN LET n == IF At(s, j) = 48 THEN 0 ELSE ScanDigits(s, j, 0).n
                    IN Good(PyInt(IF neg THEN 0 - n ELSE n), r.i)
               ELSE Good(FloatOf(neg, r.ds \o fr.ds, Len(r.ds) + e.n), e.i)

\* dict(pairs) on one more pair: a key already present keeps its place and
\* takes the new value.
PutPair(kv, k, v) ==
  IF \E j \in 1..Len(kv) : kv[j][1] = k
    THEN [j \in 1..Len(kv) |-> IF kv[j][1] = k THEN <<k, v>> ELSE kv[j]]
    ELSE Append(kv, <<k, v>>)

RECURSIVE ScanValue(_, _)
RECURSIVE ScanArray(_, _, _)
RECURSIVE ScanObject(_, _, _)
\* The items of an array, from the first character of an item.
ScanArray(s, i, acc) ==
  LET r == ScanValue(s, i) IN
  IF ~r.ok THEN Bad
  ELSE LET j == SkipWs(s, r.i)
           c == At(s, j)
       IN IF c = 93 THEN Good(PyList(Append(acc, r.v)), j + 1)
          ELSE IF c = 44 THEN ScanArray(s, SkipWs(s, j + 1), Append(acc, r.v))
          ELSE Bad

\* The pairs of an object, from the opening quote of a key.
ScanObject(s, i, acc) ==
  IF At(s, i) # 34 THEN Bad
  ELSE LET k == ScanString(s, i + 1, <<>>) IN
    IF ~k.ok THEN Bad
    ELSE LET j == SkipWs(s, k.i) IN
      IF At(s, j) # 58 THEN Bad
      ELSE LET r == ScanValue(s, SkipWs(s, j + 1)) IN
        IF ~r.ok THEN Bad
        ELSE LET m == SkipWs(s, r.i)
                 c == At(s, m)
                 kv == PutPair(acc, k.v, r.v)
             IN IF c = 125 THEN Good(PyDict(kv), m + 1)
                ELSE IF c = 44 THEN ScanObject(s, SkipWs(s, m + 1), kv)
                ELSE Bad

\* One value from index i: '"' opens a string, '{' an object, '[' an array.
ScanValue(s, i) ==
  LET c == At(s, i) IN
  IF c = 34 THEN ScanString(s, i + 1, <<>>)
  ELSE IF c = 123
    THEN LET j == SkipWs(s, i + 1) IN
         IF At(s, j) = 125 THEN Good(PyDict(<<>>), j + 1) ELSE ScanObject(s, j, <<>>)
  ELSE IF c = 91
    THEN LET j == SkipWs(s, i + 1) IN
         IF At(s, j) = 93 THEN Good(PyList(<<>>), j + 1) ELSE ScanArray(s, j, <<>>)
  ELSE IF StartsAt(s, i, "null") THEN Good(PyNone, i + 4)
  ELSE IF StartsAt(s, i, "true") THEN Good(PyBool(TRUE), i + 4)
  ELSE IF StartsAt(s, i, "false") THEN Good(PyBool(FALSE), i + 5)
  ELSE IF StartsAt(s, i, "NaN") THEN Good(PyNaN, i + 3)
  ELSE IF StartsAt(s, i, "Infinity") THEN Good(PyInf(FALSE), i + 8)
  ELSE IF StartsAt(s, i, "-Infinity") THEN Good(PyInf(TRUE), i + 9)
  ELSE ScanNumber(s, i)

\* json.loads(text): the whole text is one value (a ValueError is ok = FALSE)
JsonLoads(text) ==
  LET r == ScanValue(text.s, SkipWs(text.s, 1)) IN
  IF r.ok /\ SkipWs(text.s, r.i) = Len(text.s) + 1 THEN r ELSE Bad


(***************************************************************************)
(* Bounds of the model.                                                    *)
(***************************************************************************)
\* posts the collaborator receives in one behaviour
MaxCalls == 3

\* posts the collaborator receives in one behaviour of SpecMeta
MaxMetaCalls == 1

\* indexes the service ever creates
MaxIndices == 3

(***************************************************************************)
(* The request and item types of nludb.types.embedding_index: thin value   *)
(* objects mirroring the wire payloads, a field not given being None.      *)
(***************************************************************************)
IndexItem(value, fileId, blockId, spanId, externalId, externalType, metadata) ==
  [t |-> "IndexItem", value |-> value, fileId |-> fileId, blockId |-> blockId,
   spanId |-> spanId, externalId |-> externalId, externalType |-> externalType,
   metadata |-> metadata]

\* IndexItem(value=s)
ItemOfValue(s) == IndexItem(s, PyNone, PyNone, PyNone, PyNone, PyNone, PyNone)

\* metadata_to_str: structured metadata as its string encoding
metadata_to_str(m) == IF IsStructured(m) THEN JsonDumps(m) ELSE m

\* IndexItem.clone_for_insert: a copy whose structured metadata is a string
clone_for_insert(item) == [item EXCEPT !.metadata = metadata_to_str(item.metadata)]

IndexInsertRequest(indexId, value, items, fileId, blockType, externalId, externalType, metadata, reindex) ==
  [type |-> "IndexInsertRequest", indexId |-> indexId, value |-> value,
   items |-> items, fileId |-> fileId, blockType |-> blockType,
   externalId |-> externalId, externalType |-> externalType,
   metadata |-> metadata, reindex |-> reindex]

IndexEmbedRequest(indexId) == [type |-> "IndexEmbedRequest", indexId |-> indexId]

IndexSnapshotRequest(indexId) == [type |-> "IndexSnapshotRequest", indexId |-> indexId]

ListSnapshotsRequest(indexId) == [type |-> "ListSnapshotsRequest", indexId |-> indexId]

ListItemsRequest(indexId, fileId, blockId, spanId) ==
  [type |-> "ListItemsRequest", indexId |-> indexId, fileId |-> fileId,
   blockId |-> blockId, spanId |-> spanId]

DeleteSnapshotsRequest(snapshotId) ==
  [type |-> "DeleteSnapshotsRequest", snapshotId |-> snapshotId]

IndexDeleteRequest(indexId) == [type |-> "IndexDeleteRequest", indexId |-> indexId]

IndexSearchRequest(indexId, query, queries, k, includeMetadata) ==
  [type |-> "IndexSearchRequest", indexId |-> indexId, query |-> query,
   queries |-> queries, k |-> k, includeMetadata |-> includeMetadata]

IndexCreateRequest(name, model, upsert, externalId, externalType, metadata) ==
  [type |-> "IndexCreateRequest", name |-> name, model |-> model,
   upsert |-> upsert, externalId |-> externalId, externalType |-> externalType,
   metadata |-> metadata]

(***************************************************************************)
(* The requests the methods of EmbeddingIndex build.  self is the handle,  *)
(* a record of its id and name; a is the record of the call's arguments.   *)
(***************************************************************************)
\* EmbeddingIndex.__init__
EmbeddingIndex(id, name) == [id |-> id, name |-> name]

\* An exception that leaves the method.
Raise(exc, status, message) ==
  [kind |-> "raise", exc |-> exc, status |-> status, message |-> message]

IsRaise(x) == "kind" \in DOMAIN x /\ x.kind = "raise"

\* insert_file with the isinstance test for a list left out
InsertFileMetadata_DictOnly(metadata) ==
  IF metadata.t = "dict" THEN JsonDumps(metadata) ELSE metadata

\* insert_file: a dict or a list becomes json.dumps of it
InsertFileMetadata(metadata) ==
  IF metadata.t = "dict" \/ metadata.t = "list" THEN JsonDumps(metadata) ELSE metadata

InsertFileReq(self, a) ==
  IndexInsertRequest(self.id, PyNone, PyNone, a.fileId, a.blockType, a.externalId,
                     a.externalType, InsertFileMetadata(a.metadata), a.reindex)

\* insert_many with the str given to IndexItem as its external id
NormalizeItem_AsExternalId(item) ==
  IF IsStr(item)
    THEN IndexItem(PyNone, PyNone, PyNone, PyNone, item, PyNone, PyNone)
    ELSE item

\* insert_many: a plain str becomes an item of that value, anything else
\* is kept as it is
NormalizeItem(item) == IF IsStr(item) THEN ItemOfValue(item) ELSE item

NewItems(items) == [i \in 1..Len(items) |-> NormalizeItem(items[i])]

\* Whether the object has the method clone_for_insert.
HasCloneForInsert(item) == item.t = "IndexItem"

\* insert_many: the request of the items' clones; an element that is neither
\* a str nor an item has no clone_for_insert, and the AttributeError leaves
\* the method before a request exists.
InsertManyReq(self, a) ==
  LET newItems == NewItems(a.items.xs) IN
  IF \E i \in 1..Len(newItems) : ~HasCloneForInsert(newItems[i])
    THEN Raise("AttributeError", 0, "clone_for_insert")
    ELSE IndexInsertRequest(self.id, PyNone,
                            PyList([i \in 1..Len(newItems) |-> clone_for_insert(newItems[i])]),
                            PyNone, PyNone, PyNone, PyNone, PyNone, a.reindex)

InsertReq(self, a) ==
  IndexInsertRequest(self.id, a.value, PyNone, PyNone, PyNone, a.externalId,
                     a.externalType, metadata_to_str(a.metadata), a.reindex)

EmbedReq(self) == IndexEmbedRequest(self.id)

CreateSnapshotReq(self) == IndexSnapshotRequest(self.id)

ListSnapshotsReq(self) == ListSnapshotsRequest(self.id)

\* list_items with fileId and blockId given in each other's place
ListItemsReq_Swapped(self, a) ==
  ListItemsRequest(self.id, a.blockId, a.fileId, a.spanId)

ListItemsReq(self, a) == ListItemsRequest(self.id, a.fileId, a.blockId, a.spanId)

DeleteSnapshotReq(self, a) == DeleteSnapshotsRequest(a.snapshot_id)

DeleteReq(self) == IndexDeleteRequest(self.id)

\* search: type(query) == list picks the batch field
SearchReq(self, a) ==
  IF a.query.t = "list"
    THEN IndexSearchRequest(self.id, PyNone, a.query, a.k, a.includeMetadata)
    ELSE IndexSearchRequest(self.id, a.query, PyNone, a.k, a.includeMetadata)

CreateReq(a) ==
  IndexCreateRequest(a.name, a.model, a.upsert, a.externalId, a.externalType,
                     a.metadata)

(***************************************************************************)
(* The collaborator: ApiBase.post and the remote service behind it.  The   *)
(* service keeps the live indexes, their items and snapshots, and the      *)
(* asynchronous tasks it was asked to run.                                 *)
(***************************************************************************)
IdOf(prefix, n) == Codes(prefix) \o NatToStr(n)

Ok(data) == [ok |-> TRUE, status |-> 200, message |-> "ok", data |-> data]

Failure(status, message) ==
  [ok |-> FALSE, status |-> status, message |-> message, data |-> PyNone]

NotFound == Failure(404, "not found")

\* Whether the request names an index the service holds.
Live(s, indexId) == indexId.t = "str" /\ \E x \in s.idx : x.id = indexId.s

\* dict.get(key, default)
DictGet(d, key, default) ==
  IF \E j \in 1..Len(d.kv) : d.kv[j][1] = key
    THEN d.kv[CHOOSE j \in 1..Len(d.kv) : d.kv[j][1] = key][2]
    ELSE default

\* The items an insert request stands for: its batch, or the one item its
\* single-value fields describe.
ItemsOf(req) ==
  IF req.items.t = "list" THEN req.items.xs
  ELSE << IndexItem(req.value, req.fileId, PyNone, PyNone, req.externalId,
                    req.externalType, req.metadata) >>

Stored(indexId, item) == [indexId |-> indexId, item |-> item]

ServeCreate(req, s) ==
  IF \E x \in s.idx : x.name = req.name
    THEN LET x == CHOOSE y \in s.idx : y.name = req.name IN
         IF req.upsert.t = "bool" /\ req.upsert.b
           THEN [resp |-> Ok(PyDict(<< <<PyText("id"), PyStr(x.id)>> >>)), srv |-> s]
           ELSE [resp |-> Failure(400, "index exists"), srv |-> s]
    ELSE LET id == IdOf("idx_", s.next + 1) IN
         [resp |-> Ok(PyDict(<< <<PyText("id"), PyStr(id)>> >>)),
          srv |-> [s EXCEPT !.next = s.next + 1,
                            !.idx = s.idx \cup {[id |-> id, name |-> req.name]}]]

ServeInsert(req, s) ==
  IF ~Live(s, req.indexId) THEN [resp |-> NotFound, srv |-> s]
  ELSE LET xs == ItemsOf(req) IN
       [resp |-> Ok(PyInt(Len(xs))),
        srv |-> [s EXCEPT !.items =
                   s.items \cup {Stored(req.indexId.s, xs[i]) : i \in 1..Len(xs)}]]

\* The work of a task: an embedding pass leaves the stored items as they
\* are, a snapshot adds one snapshot of the index if it still exists.
TaskWork(kind, indexId, s) ==
  IF kind = "snapshot" /\ \E x \in s.idx : x.id = indexId
    THEN [s EXCEPT !.nsnap = s.nsnap + 1,
                   !.snaps = s.snaps \cup
                     {[id |-> IdOf("snap_", s.nsnap + 1), indexId |-> indexId]}]
    ELSE s

\* A long-running route.  Asked asynchronously, the service records the task
\* and answers at once with its handle, the work still to do; asked
\* synchronously, it answers when the work is done.
ServeTask(kind, req, asynchronous, s) ==
  IF ~Live(s, req.indexId) THEN [resp |-> NotFound, srv |-> s]
  ELSE LET id == Len(s.tasks) + 1
           task(st) == [kind |-> kind, indexId |-> req.indexId.s, state |-> st]
           answer(st) == [ok |-> TRUE, status |-> 200, message |-> "ok",
                          data |-> PyNone, task |-> [taskId |-> id, state |-> st]]
       IN IF asynchronous
            THEN [resp |-> answer("running"),
                  srv |-> [s EXCEPT !.tasks = Append(s.tasks, task("running"))]]
            ELSE [resp |-> answer("done"),
                  srv |-> [TaskWork(kind, req.indexId.s, s) EXCEPT
                             !.tasks = Append(s.tasks, task("done"))]]

ServeListSnapshots(req, s) ==
  IF ~Live(s, req.indexId) THEN [resp |-> NotFound, srv |-> s]
  ELSE [resp |-> Ok({x \in s.snaps : x.indexId = req.indexId.s}), srv |-> s]

ServeDeleteSnapshot(req, s) ==
  IF req.snapshotId.t = "str" /\ \E x \in s.snaps : x.id = req.snapshotId.s
    THEN [resp |-> Ok(req.snapshotId),
          srv |-> [s EXCEPT !.snaps = {x \in s.snaps : x.id # req.snapshotId.s}]]
    ELSE [resp |-> NotFound, srv |-> s]

\* The filter of listItems: the conjunction of the identifiers given.
Matches(item, req) ==
  /\ IsNone(req.fileId) \/ item.fileId = req.fileId
  /\ IsNone(req.blockId) \/ item.blockId = req.blockId
  /\ IsNone(req.spanId) \/ item.spanId = req.spanId

ServeListItems(req, s) ==
  IF ~Live(s, req.indexId) THEN [resp |-> NotFound, srv |-> s]
  ELSE [resp |-> Ok({x.item : x \in {y \in s.items :
                       y.indexId = req.indexId.s /\ Matches(y.item, req)}}),
        srv |-> s]

ServeDelete(req, s) ==
  IF ~Live(s, req.indexId) THEN [resp |-> NotFound, srv |-> s]
  ELSE [resp |-> Ok(req.indexId),
        srv |-> [s EXCEPT !.idx = {x \in s.idx : x.id # req.indexId.s},
                          !.items = {x \in s.items : x.indexId # req.indexId.s},
                          !.snaps = {x \in s.snaps : x.indexId # req.indexId.s}]]

RECURSIVE CommonPrefix(_, _)
CommonPrefix(q, v) ==
  IF Len(q) = 0 \/ Len(v) = 0 \/ SubSeq(q, 1, 1) # SubSeq(v, 1, 1) THEN 0
  ELSE 1 + CommonPrefix(Tail(q), Tail(v))

\* The relevance of a stored value to a query: the higher the closer.
Score(q, v) == 2 * CommonPrefix(q, v) + (IF q = v THEN 1 ELSE 0)

RECURSIVE TopK(_, _, _, _)
\* The k best of the candidates, best first.
TopK(cands, q, k, withMeta) ==
  IF k <= 0 \/ cands = {} THEN <<>>
  ELSE LET best == CHOOSE x \in cands :
                     \A y \in cands : Score(q, x.value.s) >= Score(q, y.value.s)
           hit == [score |-> Score(q, best.value.s), value |-> best.value,
                   metadata |-> IF withMeta THEN best.metadata ELSE PyNone]
       IN <<hit>> \o TopK(cands \ {best}, q, k - 1, withMeta)

Candidates(s, indexId) ==
  {x.item : x \in {y \in s.items : y.indexId = indexId /\ IsStr(y.item.value)}}

ServeSearch(req, s) ==
  IF ~Live(s, req.indexId) THEN [resp |-> NotFound, srv |-> s]
  ELSE LET cands == Candidates(s, req.indexId.s)
           withMeta == req.includeMetadata.t = "bool" /\ req.includeMetadata.b
           one(q) == TopK(cands, q.s, req.k.n, withMeta)
       IN IF req.queries.t = "list"
            THEN [resp |-> Ok([batch |-> TRUE,
                               hits |-> [i \in 1..Len(req.queries.xs) |->
                                           one(req.queries.xs[i])]]),
                  srv |-> s]
            ELSE [resp |-> Ok([batch |-> FALSE, hits |-> one(req.query)]), srv |-> s]

Service(route, req, asynchronous, s) ==
  CASE route = "embedding-index/create" -> ServeCreate(req, s)
    [] route = "embedding-index/insert" -> ServeInsert(req, s)
    [] route = "embedding-index/embed" -> ServeTask("embed", req, asynchronous, s)
    [] route = "embedding-index/snapshot/create" -> ServeTask("snapshot", req, asynchronous, s)
    [] route = "embedding-index/snapshot/list" -> ServeListSnapshots(req, s)
    [] route = "embedding-index/snapshot/delete" -> ServeDeleteSnapshot(req, s)
    [] route = "embedding-index/listItems" -> ServeListItems(req, s)
    [] route = "embedding-index/delete" -> ServeDelete(req, s)
    [] route = "embedding-index/search" -> ServeSearch(req, s)

\* What can go wrong between the handle and the service on one post.
Faults == {"none", "network", "undecodable"}

\* ApiBase.post: the service's answer, or the failure of the transport.  A
\* response that cannot be decoded is a failure of a request the service
\* has carried out.
Post(route, req, asynchronous, fault, s) ==
  IF fault = "network" THEN [resp |-> Failure(503, "network failure"), srv |-> s]
  ELSE LET r == Service(route, req, asynchronous, s) IN
       IF fault = "undecodable" /\ r.resp.ok
         THEN [resp |-> Failure(r.resp.status, "undecodable response"), srv |-> r.srv]
         ELSE r

(***************************************************************************)
(* The methods of EmbeddingIndex.  Each builds its request, posts it once  *)
(* and returns what post returns; a failure of post is an exception that   *)
(* no method catches.                                                      *)
(***************************************************************************)
\* post called again, once, when it fails
PostRetry(route, req, asynchronous, fault, s) ==
  LET p == Post(route, req, asynchronous, fault, s) IN
  IF p.resp.ok THEN [resp |-> p.resp, srv |-> p.srv, posts |-> 1]
  ELSE LET q == Post(route, req, asynchronous, "none", p.srv) IN
       [resp |-> q.resp, srv |-> q.srv, posts |-> 2]

\* self.nludb.post(...), called once
PostOnce(route, req, asynchronous, fault, s) ==
  LET p == Post(route, req, asynchronous, fault, s) IN
  [resp |-> p.resp, srv |-> p.srv, posts |-> 1]

\* the failure of post caught and its response returned as a value
ReturnPost_Swallow(resp) == [kind |-> "return", v |-> resp]

\* return self.nludb.post(...)
ReturnPost(resp) ==
  IF resp.ok THEN [kind |-> "return", v |-> resp]
  ELSE Raise("RemoteRequestError", resp.status, resp.message)

\* search with the test of the dataframe option turned around
SearchReturn_PdInverted(resp, pd) ==
  IF ~resp.ok THEN Raise("RemoteRequestError", resp.status, resp.message)
  ELSE IF pd = TRUE THEN [kind |-> "return", v |-> resp]
  ELSE IF resp.data.batch /\ Len(resp.data.hits) > 0
    THEN Raise("AttributeError", 0, "score")
  ELSE [kind |-> "return",
        v |-> [columns |-> <<"Score", "Value">>,
               rows |-> [i \in 1..Len(resp.data.hits) |->
                           <<resp.data.hits[i].score, resp.data.hits[i].value>>]]]

\* The tail of search: the response as it is, or its hits as the rows
\* (score, value) of a dataframe.  A batch response holds hit lists, which
\* have no score.
SearchReturn(resp, pd) ==
  IF ~resp.ok THEN Raise("RemoteRequestError", resp.status, resp.message)
  ELSE IF pd = FALSE THEN [kind |-> "return", v |-> resp]
  ELSE IF resp.data.batch /\ Len(resp.data.hits) > 0
    THEN Raise("AttributeError", 0, "score")
  ELSE [kind |-> "return",
        v |-> [columns |-> <<"Score", "Value">>,
               rows |-> [i \in 1..Len(resp.data.hits) |->
                           <<resp.data.hits[i].score, resp.data.hits[i].value>>]]]

\* The tail of create: a handle of the requested name and the id of the
\* response.
CreateReturn(resp, req) ==
  IF ~resp.ok THEN Raise("RemoteRequestError", resp.status, resp.message)
  ELSE [kind |-> "return", v |-> EmbeddingIndex(DictGet(resp.data, PyText("id"), PyNone), req.name)]

CallRecord(op, self, a, route, req, asynchronous, expect, p, ret) ==
  [op |-> op, self |-> self, args |-> a, route |-> route, req |-> req,
   asynchronous |-> asynchronous, expect |-> expect, posts |-> p.posts,
   out |-> p.resp, ret |-> ret]

\* A method whose body is: build the request, return post of it.
Invoke(op, self, a, route, req, asynchronous, expect, fault) ==
  LET p == PostOnce(route, req, asynchronous, fault, srv) IN
  /\ srv' = p.srv
  /\ ncalls' = ncalls + p.posts
  /\ last' = CallRecord(op, self, a, route, req, asynchronous, expect, p,
                        ReturnPost(p.resp))
  /\ UNCHANGED handles

insert_file(self, a, fault) ==
  Invoke("insert_file", self, a, "embedding-index/insert", InsertFileReq(self, a),
         FALSE, "IndexInsertResponse", fault)

\* The record of a call that raised before it posted anything.
NotPosted == [posts |-> 0, resp |-> [ok |-> FALSE, status |-> 0, message |-> "not posted", data |-> PyNone]]

insert_many(self, a, fault) ==
  LET req == InsertManyReq(self, a) IN
  IF IsRaise(req)
    THEN /\ last' = CallRecord("insert_many", self, a, "embedding-index/insert", PyNone,
                               FALSE, "IndexInsertResponse", NotPosted, req)
         /\ UNCHANGED <<handles, srv, ncalls>>
    ELSE Invoke("insert_many", self, a, "embedding-index/insert", req,
                FALSE, "IndexInsertResponse", fault)

insert(self, a, fault) ==
  Invoke("insert", self, a, "embedding-index/insert", InsertReq(self, a),
         FALSE, "IndexInsertResponse", fault)

embed(self, fault) ==
  Invoke("embed", self, PyNone, "embedding-index/embed", EmbedReq(self),
         TRUE, "IndexEmbedRequest", fault)

\* create_snapshot without asynchronous=True
create_snapshot_Sync(self, fault) ==
  Invoke("create_snapshot", self, PyNone, "embedding-index/snapshot/create",
         CreateSnapshotReq(self), FALSE, "IndexSnapshotRequest", fault)

create_snapshot(self, fault) ==
  Invoke("create_snapshot", self, PyNone, "embedding-index/snapshot/create",
         CreateSnapshotReq(self), TRUE, "IndexSnapshotRequest", fault)

list_snapshots(self, fault) ==
  Invoke("list_snapshots", self, PyNone, "embedding-index/snapshot/list",
         ListSnapshotsReq(self), FALSE, "ListSnapshotsResponse", fault)

list_items(self, a, fault) ==
  Invoke("list_items", self, a, "embedding-index/listItems", ListItemsReq(self, a),
         FALSE, "ListItemsResponse", fault)

delete_snapshot(self, a, fault) ==
  Invoke("delete_snapshot", self, a, "embedding-index/snapshot/delete",
         DeleteSnapshotReq(self, a), FALSE, "DeleteSnapshotsResponse", fault)

\* delete clearing the id of the handle once the index is gone
delete_Invalidate(self, fault) ==
  LET req == DeleteReq(self)
      p == PostOnce("embedding-index/delete", req, FALSE, fault, srv)
  IN /\ srv' = p.srv
     /\ ncalls' = ncalls + p.posts
     /\ last' = CallRecord("delete", self, PyNone, "embedding-index/delete", req,
                           FALSE, "IndexDeleteResponse", p, ReturnPost(p.resp))
     /\ handles' = IF p.resp.ok
                     THEN (handles \ {self}) \cup {EmbeddingIndex(PyNone, self.name)}
                     ELSE handles

delete(self, fault) ==
  Invoke("delete", self, PyNone, "embedding-index/delete", DeleteReq(self),
         FALSE, "IndexDeleteResponse", fault)

search(self, a, fault) ==
  LET req == SearchReq(self, a)
      p == PostOnce("embedding-index/search", req, FALSE, fault, srv)
  IN /\ srv' = p.srv
     /\ ncalls' = ncalls + p.posts
     /\ last' = CallRecord("search", self, a, "embedding-index/search", req, FALSE,
                           "IndexSearchResponse", p, SearchReturn(p.resp, a.pd))
     /\ UNCHANGED handles

\* The static create: the handle it returns is the only new object.
create(a, fault) ==
  LET req == CreateReq(a)
      p == PostOnce("embedding-index/create", req, FALSE, fault, srv)
      ret == CreateReturn(p.resp, req)
  IN /\ srv' = p.srv
     /\ ncalls' = ncalls + p.posts
     /\ last' = CallRecord("create", PyNone, a, "embedding-index/create", req, FALSE,
                           "None", p, ret)
     /\ handles' = IF ret.kind = "return" THEN handles \cup {ret.v} ELSE handles

\* The service finishes a task it was running.
TaskDone(i) ==
  /\ srv.tasks[i].state = "running"
  /\ srv' = [TaskWork(srv.tasks[i].kind, srv.tasks[i].indexId, srv) EXCEPT
               !.tasks[i].state = "done"]
  /\ UNCHANGED <<handles, last, ncalls>>

(***************************************************************************)
(* The arguments the operations are called with.                           *)
(***************************************************************************)
MetaDict == PyDict(<< <<PyText("a"), PyInt(1)>> >>)

MetaList == PyList(<<PyInt(1), PyText("x")>>)

CreateArgs ==
  {[name |-> PyText(n[1]), model |-> PyText("text-embedding"), upsert |-> PyBool(n[2]),
    externalId |-> PyNone, externalType |-> PyNone, metadata |-> PyNone] :
     n \in {<<"docs", TRUE>>, <<"docs", FALSE>>, <<"notes", TRUE>>}}

InsertArgs ==
  {[value |-> PyText("a"), externalId |-> PyNone, externalType |-> PyNone,
    metadata |-> PyNone, reindex |-> PyBool(TRUE)],
   [value |-> PyText("ab"), externalId |-> PyText("e1"), externalType |-> PyText("doc"),
    metadata |-> MetaDict, reindex |-> PyBool(FALSE)]}

InsertFileArgs ==
  {[fileId |-> PyText(f), blockType |-> PyNone, externalId |-> PyNone,
    externalType |-> PyNone, metadata |-> PyNone, reindex |-> PyBool(TRUE)] :
     f \in {"f1", "f2"}}

BlockItem ==
  IndexItem(PyNone, PyText("f1"), PyText("b1"), PyText("s1"), PyNone, PyNone, MetaList)

InsertManyArgs ==
  {[items |-> PyList(xs), reindex |-> PyBool(TRUE)] :
     xs \in {<<PyText("a")>>, <<PyText("ab"), BlockItem>>}}

ListItemsArgs ==
  {[fileId |-> PyNone, blockId |-> PyNone, spanId |-> PyNone],
   [fileId |-> PyText("f1"), blockId |-> PyNone, spanId |-> PyNone],
   [fileId |-> PyText("f1"), blockId |-> PyText("b1"), spanId |-> PyText("s1")]}

DeleteSnapshotArgs == {[snapshot_id |-> PyText(s)] : s \in {"snap_1", "snap_2"}}

SearchArgs ==
  {[query |-> PyText("a"), k |-> PyInt(1), includeMetadata |-> PyBool(FALSE),
    pd |-> FALSE],
   [query |-> PyList(<<PyText("ab"), PyText("a")>>), k |-> PyInt(2),
    includeMetadata |-> PyBool(FALSE), pd |-> FALSE],
   [query |-> PyText("ab"), k |-> PyInt(2), includeMetadata |-> PyBool(TRUE),
    pd |-> TRUE],
   [query |-> PyList(<<PyText("a")>>), k |-> PyInt(1),
    includeMetadata |-> PyBool(FALSE), pd |-> TRUE]}

(***************************************************************************)
(* The metadata the insertion and creation operations are given in         *)
(* SpecMeta: absent, scalars, and mappings and sequences, nested, with     *)
(* characters that need escaping (quotes, control characters, characters   *)
(* beyond ASCII and beyond U+FFFF), with keys that are not strings, with   *)
(* surrogate code points and with floats, NaN and the infinities included. *)
(***************************************************************************)
MetaNested ==
  PyDict(<< <<PyText("k"), PyList(<<PyBool(TRUE), PyNone,
                                  PyDict(<< <<PyText("q\"r"), PyInt(0 - 12)>> >>)>>)>>,
            <<PyText("e"), PyDict(<<>>)>> >>)

\* 2.5
TwoAndHalf == PyFloat(FALSE, <<2, 5>>, 1)

MetaScalars ==
  {PyNone, PyText("x"), PyText(""), PyText("q\"r\\"), PyInt(7), PyInt(0), PyInt(0 - 3),
   PyBool(FALSE), PyBool(TRUE), TwoAndHalf, PyNaN, PyInf(TRUE)}

MetaJson ==
  {PyList(<<>>), PyDict(<<>>), MetaList, MetaDict, MetaNested,
   PyList(<<PyText("a\\b"), PyList(<<PyInt(105)>>)>>),
   PyDict(<< <<PyText("b"), PyInt(2)>>, <<PyText("a"), PyText("1")>> >>),
   PyList(<<PyNone>>), PyList(<<PyBool(FALSE), PyInt(0)>>),
   PyDict(<< <<PyText("a"), PyDict(<< <<PyText("b"), PyList(<<>>)>> >>)>> >>),
   PyDict(<< <<PyText("a b"), PyText("c, d")>>, <<PyText(""), PyInt(1)>> >>),
   PyList(<<PyText("a\nb"), PyText("\r\f")>>),
   PyDict(<< <<PyText("a\tb"), PyText("\n")>>, <<PyText("k"), PyText("t\tt/~")>> >>),
   PyList(<<PyStr(<<97, 8, 98>>), PyStr(<<99, 97, 102, 233>>), PyStr(<<128512, 96>>)>>),
   PyDict(<< <<PyStr(<<107, 127>>), PyStr(<<0>>)>> >>)}

MetaOtherKeys ==
  {PyDict(<< <<PyInt(1), PyText("a")>> >>),
   PyDict(<< <<PyBool(TRUE), PyText("x")>> >>),
   PyDict(<< <<PyNone, PyList(<<>>)>> >>),
   PyDict(<< <<PyInt(1), PyText("a")>>, <<PyText("1"), PyText("b")>> >>),
   PyList(<< PyDict(<< <<PyInt(2), PyText("b")>> >>) >>),
   PyDict(<< <<PyInt(0), PyNone>> >>),
   PyDict(<< <<PyText("k"), PyDict(<< <<PyBool(FALSE), PyInt(1)>> >>)>> >>)}

\* Strings that hold surrogate code points: a high and a low one side by
\* side, which json.loads reads back as the one character of the pair, and
\* one alone.
MetaSurrogates ==
  {PyList(<<PyStr(<<55357, 56832>>)>>),
   PyDict(<< <<PyText("k"), PyStr(<<97, 55357>>)>> >>)}

\* {"w": [1.5, "a\ud83d", 1e+16], "z": -0.0}: floats and a surrogate alone
MetaMixed ==
  PyDict(<< <<PyText("w"), PyList(<<PyFloat(FALSE, <<1, 5>>, 1), PyStr(<<97, 55357>>),
                                  PyFloat(FALSE, <<1>>, 17)>>)>>,
            <<PyText("z"), PyFloat(TRUE, <<>>, 0)>> >>)

\* Finite floats in each form repr writes (1.5, -0.25, 1e-05, 100.0, 0.0,
\* 0.30000000000000004, 1.7976931348623157e+308), the infinities, NaN, and
\* floats as keys.
MetaFloats ==
  {MetaMixed,
   PyList(<<TwoAndHalf>>),
   PyDict(<< <<PyText("a"), PyFloat(TRUE, <<2, 5>>, 0)>>,
             <<PyText("b"), PyFloat(FALSE, <<1>>, 0 - 4)>> >>),
   PyList(<<PyFloat(FALSE, <<1>>, 3), PyInt(100), PyFloat(FALSE, <<>>, 0)>>),
   PyList(<<PyFloat(FALSE, <<3, 0, 0, 0, 0, 0, 0, 0, 0, 0, 0, 0, 0, 0, 0, 0, 4>>, 0),
            PyFloat(FALSE, <<1, 7, 9, 7, 6, 9, 3, 1, 3, 4, 8, 6, 2, 3, 1, 5, 7>>, 309)>>),
   PyDict(<< <<PyText("k"), PyList(<<PyInf(FALSE), PyInf(TRUE)>>)>> >>),
   PyList(<<PyNaN>>),
   PyDict(<< <<PyText("k"), PyList(<<PyInt(1), PyNaN>>)>> >>),
   PyDict(<< <<TwoAndHalf, PyText("a")>> >>),
   PyDict(<< <<PyNaN, PyInt(1)>> >>)}

\* Strings whose surrogates do not make a pair: a low one before a high
\* one, and a high one that ends the string before another string starts
\* with a low one.
MetaLoneSurrogates ==
  {PyList(<<PyStr(<<56832, 55357>>)>>),
   PyList(<<PyStr(<<55357>>), PyStr(<<56832>>)>>),
   PyDict(<< <<PyStr(<<55357>>), PyStr(<<56832, 97>>)>> >>)}

MetaValues ==
  MetaScalars \cup MetaJson \cup MetaOtherKeys \cup MetaSurrogates
    \cup MetaFloats \cup MetaLoneSurrogates

CreateMetaArgs ==
  {[name |-> PyText("docs"), model |-> PyText("text-embedding"), upsert |-> PyBool(TRUE),
    externalId |-> PyNone, externalType |-> PyNone, metadata |-> m] : m \in MetaValues}

InsertMetaArgs ==
  {[value |-> PyText("a"), externalId |-> PyNone, externalType |-> PyNone,
    metadata |-> m, reindex |-> PyBool(TRUE)] : m \in MetaValues}

InsertFileMetaArgs ==
  {[fileId |-> PyText("f1"), blockType |-> PyText("text"), externalId |-> PyNone,
    externalType |-> PyNone, metadata |-> m, reindex |-> PyBool(TRUE)] :
     m \in MetaValues}

InsertManyMetaArgs ==
  {[items |-> PyList(<<PyText("a"),
                       IndexItem(PyText("b"), PyNone, PyNone, PyNone, PyNone, PyNone, m)>>),
    reindex |-> PyBool(TRUE)] : m \in MetaValues}

NoCall == [op |-> "none"]

\* A handle constructed on the index "docs", which the service holds as
\* idx_1 and which is still empty.  The service holds one more index,
\* "notes", and a snapshot of it.
Init ==
  /\ handles = {EmbeddingIndex(PyText("idx_1"), PyText("docs"))}
  /\ srv = [next |-> 2,
            idx |-> {[id |-> Codes("idx_1"), name |-> PyText("docs")],
                     [id |-> Codes("idx_2"), name |-> PyText("notes")]},
            items |-> {}, nsnap |-> 1,
            snaps |-> {[id |-> Codes("snap_1"), indexId |-> Codes("idx_2")]}, tasks |-> <<>>]
  /\ last = NoCall
  /\ ncalls = 0

Budget == ncalls < MaxCalls

\* The service has an id left for a new index, or holds the name already.
CanCreate(a) == srv.next < MaxIndices \/ \E x \in srv.idx : x.name = a.name

Next ==
  \/ \E a \in CreateArgs, f \in Faults : Budget /\ CanCreate(a) /\ create(a, f)
  \/ \E self \in handles, a \in InsertArgs, f \in Faults : Budget /\ insert(self, a, f)
  \/ \E self \in handles, a \in InsertManyArgs, f \in Faults : Budget /\ insert_many(self, a, f)
  \/ \E self \in handles, a \in InsertFileArgs, f \in Faults : Budget /\ insert_file(self, a, f)
  \/ \E self \in handles, f \in Faults : Budget /\ embed(self, f)
  \/ \E self \in handles, f \in Faults : Budget /\ create_snapshot(self, f)
  \/ \E self \in handles, f \in Faults : Budget /\ list_snapshots(self, f)
  \/ \E self \in handles, a \in ListItemsArgs, f \in Faults : Budget /\ list_items(self, a, f)
  \/ \E self \in handles, a \in DeleteSnapshotArgs, f \in Faults : Budget /\ delete_snapshot(self, a, f)
  \/ \E self \in handles, f \in Faults : Budget /\ delete(self, f)
  \/ \E self \in handles, a \in SearchArgs, f \in Faults : Budget /\ search(self, a, f)
  \/ \E i \in 1..Len(srv.tasks) : TaskDone(i)

Spec == Init /\ [][Next]_vars

MetaBudget == ncalls < MaxMetaCalls

\* The operations that carry metadata, on every metadata of MetaValues.
NextMeta ==
  \/ \E a \in CreateMetaArgs : MetaBudget /\ create(a, "none")
  \/ \E self \in handles, a \in InsertMetaArgs : MetaBudget /\ insert(self, a, "none")
  \/ \E self \in handles, a \in InsertManyMetaArgs : MetaBudget /\ insert_many(self, a, "none")
  \/ \E self \in handles, a \in InsertFileMetaArgs : MetaBudget /\ insert_file(self, a, "none")

SpecMeta == Init /\ [][NextMeta]_vars
(***************************************************************************)
(* Properties.                                                             *)
(***************************************************************************)
IsInsertion == last.op = "insert" \/ last.op = "insert_file"

\* The str holds a high surrogate (U+D800 to U+DBFF) immediately followed
\* by a low one (U+DC00 to U+DFFF).
HasSurrogatePair(s) ==
  \E i \in 1..(Len(s) - 1) :
    s[i] >= 55296 /\ s[i] <= 56319 /\ s[i + 1] >= 56320 /\ s[i + 1] <= 57343

RECURSIVE JsonNative(_)
\* Every mapping of the value, at every depth, has only strings as keys, no
\* string of the value holds a high surrogate immediately followed by a low
\* one, and no number of the value is NaN.
JsonNative(v) ==
  IF v.t = "str" THEN ~HasSurrogatePair(v.s)
  ELSE IF v.t = "float" THEN ~IsNaN(v)
  ELSE IF v.t = "list" THEN \A i \in 1..Len(v.xs) : JsonNative(v.xs[i])
  ELSE IF v.t = "dict"
    THEN \A i \in 1..Len(v.kv) :
           IsStr(v.kv[i][1]) /\ JsonNative(v.kv[i][1]) /\ JsonNative(v.kv[i][2])
  ELSE TRUE

\* The request holds a string that json.loads reads.
SentAsString(m) == IsStr(m) /\ JsonLoads(m).ok

RoundTrips(given, sent) == JsonLoads(sent).ok /\ PyEq(JsonLoads(sent).v, given)

IsCall == ncalls' # ncalls

\* The transport delivered the request of the last call to the service.
Delivered(call) == call.out.message # "network failure"

DefaultInsert(a) ==
  IsNone(a.externalId) /\ IsNone(a.externalType) /\ IsNone(a.metadata)

PlainItem(s) ==
  [t |-> "IndexItem", value |-> s, fileId |-> PyNone, blockId |-> PyNone,
   spanId |-> PyNone, externalId |-> PyNone, externalType |-> PyNone,
   metadata |-> PyNone]

\* What insert_many must have sent for the batch it was given.
BatchNormalized(call) ==
  /\ call.route = "embedding-index/insert"
  /\ call.req.indexId = call.self.id
  /\ call.req.reindex = call.args.reindex
  /\ IsNone(call.req.value)
  /\ Len(call.req.items.xs) = Len(call.args.items.xs)
  /\ \A i \in 1..Len(call.args.items.xs) :
       LET given == call.args.items.xs[i]
           sent == call.req.items.xs[i]
       IN IF IsStr(given) THEN sent = PlainItem(given)
          ELSE /\ [sent EXCEPT !.metadata = PyNone] = [given EXCEPT !.metadata = PyNone]
               /\ ~IsStructured(given.metadata) => sent = given

\* insert(s) leaves the service as insert_many([s]) would have.
SingleAsBatch(call, before, after) ==
  LET many == InsertManyReq(call.self, [items |-> PyList(<<call.args.value>>),
                                        reindex |-> call.args.reindex])
  IN /\ call.route = "embedding-index/insert"
     /\ many.indexId = call.req.indexId
     /\ many.reindex = call.req.reindex
     /\ many.items.xs = <<PlainItem(call.args.value)>>
     /\ Delivered(call) => after = ServeInsert(many, before).srv

\* insert_many([s]) leaves the service as insert(s) would have.
BatchAsSingle(call, before, after) ==
  LET one == InsertReq(call.self, [value |-> call.args.items.xs[1],
                                   externalId |-> PyNone, externalType |-> PyNone,
                                   metadata |-> PyNone,
                                   reindex |-> call.args.reindex])
  IN /\ one.indexId = call.req.indexId
     /\ one.reindex = call.req.reindex
     /\ Delivered(call) => after = ServeInsert(one, before).srv

\* C2: insert_many sends each plain string as an item of that value and a
\* structured item as given, on the route, index id and reindex flag insert
\* uses; and insert(s) and insert_many([s]) leave the service, which reads a
\* single value as a one-item batch, in the same state.
C2_SingleEqualsBatch ==
  [][IsCall =>
       /\ last'.op = "insert_many" => BatchNormalized(last')
       /\ (last'.op = "insert" /\ DefaultInsert(last'.args)) =>
            SingleAsBatch(last', srv, srv')
       /\ (last'.op = "insert_many" /\ Len(last'.args.items.xs) = 1
           /\ IsStr(last'.args.items.xs[1])) => BatchAsSingle(last', srv, srv')]_vars

C2_Witness ==
  /\ last.op = "insert_many"
  /\ last.args.items.xs = <<PyText("a")>>
  /\ last.out.ok
  /\ Stored(last.self.id.s, PlainItem(PyText("a"))) \in srv.items

Sorted(hits) == \A i \in 1..(Len(hits) - 1) : hits[i].score >= hits[i + 1].score

\* The answer the service gives to one query of the last search.
AnswerTo(call, q) ==
  TopK(Candidates(srv, call.self.id.s), q.s, call.args.k.n,
       call.args.includeMetadata.b)

\* C3: search sends a list query whole and in order in the batch field and
\* any other query in the single-query field, the other field empty; with
\* the dataframe option off it returns the response unchanged, so a single
\* query yields one hit list of non-increasing score and a batch of N
\* queries yields N such lists, the i-th the answer to the i-th query.
C3_SearchResults ==
  last.op = "search" =>
    /\ IF last.args.query.t = "list"
         THEN last.req.queries = last.args.query /\ IsNone(last.req.query)
         ELSE last.req.query = last.args.query /\ IsNone(last.req.queries)
    /\ (last.args.pd = FALSE /\ last.out.ok) =>
         /\ last.ret = [kind |-> "return", v |-> last.out]
         /\ IF last.args.query.t = "list"
              THEN /\ Len(last.ret.v.data.hits) = Len(last.args.query.xs)
                   /\ \A i \in 1..Len(last.args.query.xs) :
                        /\ Sorted(last.ret.v.data.hits[i])
                        /\ last.ret.v.data.hits[i] = AnswerTo(last, last.args.query.xs[i])
              ELSE /\ Sorted(last.ret.v.data.hits)
                   /\ last.ret.v.data.hits = AnswerTo(last, last.args.query)

C3_Witness ==
  /\ last.op = "search"
  /\ last.args.pd = FALSE
  /\ last.out.ok
  /\ last.args.query = PyList(<<PyText("ab"), PyText("a")>>)
  /\ Len(last.ret.v.data.hits) = 2
  /\ Len(last.ret.v.data.hits[1]) = 2
  /\ last.ret.v.data.hits[1][1].score > last.ret.v.data.hits[1][2].score
  /\ last.ret.v.data.hits[1][1].value = PyText("ab")
  /\ last.ret.v.data.hits[2][1].value = PyText("a")

\* The items of the handle's index the service holds.
ItemsIn(call) == {x.item : x \in {y \in srv.items : y.indexId = call.self.id.s}}

\* C8: list_items sends the handle's index id and exactly the fileId,
\* blockId and spanId it was given, an identifier not given as None, and
\* returns the response unchanged: the items of the index that match every
\* identifier given, so only items of the given fileId.
C8_ListItemsFilter ==
  last.op = "list_items" =>
    /\ last.req.indexId = last.self.id
    /\ last.req.fileId = last.args.fileId
    /\ last.req.blockId = last.args.blockId
    /\ last.req.spanId = last.args.spanId
    /\ last.out.ok =>
         /\ last.ret = [kind |-> "return", v |-> last.out]
         /\ last.ret.v.data =
              {x \in ItemsIn(last) :
                 /\ IsNone(last.args.fileId) \/ x.fileId = last.args.fileId
                 /\ IsNone(last.args.blockId) \/ x.blockId = last.args.blockId
                 /\ IsNone(last.args.spanId) \/ x.spanId = last.args.spanId}
         /\ ~IsNone(last.args.fileId) =>
              \A x \in last.ret.v.data : x.fileId = last.args.fileId

C8_Witness ==
  /\ last.op = "list_items"
  /\ last.out.ok
  /\ last.args.fileId = PyText("f1")
  /\ IsNone(last.args.blockId)
  /\ last.ret.v.data # {}
  /\ \E x \in ItemsIn(last) : x.fileId # PyText("f1")

\* The last call was a delete() that succeeded, and this step is the next
\* call on the same handle.
AfterDeleteOn ==
  /\ IsCall
  /\ last.op = "delete"
  /\ last.ret.kind = "return"
  /\ last'.op # "create"
  /\ last'.self = last.self

IsNotFound(ret) == ret.kind = "raise" /\ ret.status = 404

\* C4 as stated, for the operation that follows a successful delete() and
\* whose request reaches the service: whatever the operation, it surfaces
\* "not found".
C4_AnyOperationNotFound ==
  [][(AfterDeleteOn /\ Delivered(last')) => IsNotFound(last'.ret)]_vars

\* The snapshot named is one the service holds for another index.
SnapshotElsewhere(call, s) ==
  \E x \in s.snaps : x.id = call.args.snapshot_id.s /\ x.indexId # call.self.id.s

\* C4, amended: once the index of a handle is deleted, every insert,
\* insert_many, insert_file, embed, search, list_items, create_snapshot,
\* list_snapshots and delete on the handle fails, with "not found" when its
\* request reaches the service, and never returns a success; delete_snapshot,
\* whose request names the snapshot and not the index, returns a success
\* exactly for a snapshot the service holds for another index and is "not
\* found" otherwise.
C4_NotFoundAfterDelete ==
  [][(IsCall /\ last'.op # "create" /\ ~Live(srv, last'.self.id)) =>
       IF last'.op = "delete_snapshot"
         THEN /\ last'.ret.kind = "return" => SnapshotElsewhere(last', srv)
              /\ (Delivered(last') /\ ~SnapshotElsewhere(last', srv)) =>
                   IsNotFound(last'.ret)
         ELSE /\ last'.ret.kind = "raise"
              /\ Delivered(last') => IsNotFound(last'.ret)]_vars

C4_Witness ==
  /\ last.op = "search"
  /\ ~Live(srv, last.self.id)
  /\ IsNotFound(last.ret)
  /\ last.ret.exc = "RemoteRequestError"

AsyncOps == {"embed", "create_snapshot"}

\* C5: embed and create_snapshot post with asynchronous set and return the
\* task handle of the response while the task is still running and none of
\* its work is done, after one post and no poll; every other operation
\* posts synchronously and returns a response that is no task handle.
C5_Asynchrony ==
  [][IsCall =>
       /\ last'.posts = 1
       /\ IF last'.op \in AsyncOps
            THEN /\ last'.asynchronous = TRUE
                 /\ last'.out.ok =>
                      /\ last'.ret = [kind |-> "return", v |-> last'.out]
                      /\ last'.out.task.state = "running"
                      /\ last'.out.task.taskId = Len(srv.tasks) + 1
                      /\ srv'.tasks[last'.out.task.taskId].state = "running"
                      /\ srv'.snaps = srv.snaps
            ELSE /\ last'.asynchronous = FALSE
                 /\ last'.out.ok =>
                      /\ "task" \notin DOMAIN last'.out
                      /\ srv'.tasks = srv.tasks]_vars

C5_Witness ==
  /\ last.op = "create_snapshot"
  /\ last.out.ok
  /\ last.ret.v.task.state = "running"
  /\ srv.tasks[last.ret.v.task.taskId].state = "running"
  /\ \A x \in srv.snaps : x.indexId # last.self.id.s

\* C6: every operation posts exactly once; when the post fails, by a network
\* failure, a status that is no success or a response that cannot be
\* decoded, the caller gets that failure with its status and message, the
\* service has seen no second request, and nothing is returned.
C6_OnePostNoRetry ==
  [][IsCall =>
       /\ ncalls' = ncalls + 1
       /\ last'.posts = 1
       /\ \E f \in Faults :
            /\ Post(last'.route, last'.req, last'.asynchronous, f, srv).resp = last'.out
            /\ Post(last'.route, last'.req, last'.asynchronous, f, srv).srv = srv'
       /\ ~last'.out.ok =>
            last'.ret = Raise("RemoteRequestError", last'.out.status, last'.out.message)
       /\ last'.ret.kind = "return" => last'.out.ok]_vars

C6_Witness ==
  /\ last.op = "create"
  /\ ~last.out.ok
  /\ last.out.message = "undecodable response"
  /\ last.ret = Raise("RemoteRequestError", last.out.status, "undecodable response")
  /\ ncalls = 1

\* C7: on every route that carries metadata, a mapping or a sequence is in
\* the request as a string: the metadata of insert and insert_file, the
\* metadata given to create, and the metadata of each item of insert_many.
C7_MetadataSerializedEverywhere ==
  /\ (last.op \in {"insert", "insert_file", "create"}
      /\ IsStructured(last.args.metadata)) => IsStr(last.req.metadata)
  /\ last.op = "insert_many" =>
       \A i \in 1..Len(last.args.items.xs) :
         (~IsStr(last.args.items.xs[i])
          /\ IsStructured(last.args.items.xs[i].metadata)) =>
            IsStr(last.req.items.xs[i].metadata)

\* What every call leaves of the handles: none changes, create alone adds
\* one, of the requested name and the id of the response; a handle holds an
\* id and a name and nothing else, and every call, one that repeats the
\* call before it too, is a post the collaborator answers from its state.
HandlesKept ==
  /\ handles \subseteq handles'
  /\ \A h \in handles' : DOMAIN h = {"id", "name"}
  /\ IF last'.op = "create" /\ last'.ret.kind = "return"
       THEN handles' = handles \cup
              {[id |-> DictGet(last'.out.data, PyText("id"), PyNone),
                name |-> last'.args.name]}
       ELSE handles' = handles
  /\ last'.op # "create" => last'.self \in handles
  /\ ncalls' = ncalls + 1
  /\ \E f \in Faults :
       Post(last'.route, last'.req, last'.asynchronous, f, srv).resp = last'.out

CarriesId(call) == "indexId" \in DOMAIN call.req /\ call.req.indexId = call.self.id

\* C10 as stated: no call changes a handle, and the request of every
\* operation of a handle carries the handle's id.
C10_EveryRequestCarriesId ==
  [][IsCall => (HandlesKept /\ (last'.op # "create" => CarriesId(last')))]_vars

\* C10, amended: no call changes a handle, nothing but an id and a name is
\* kept on it, every call reaches the collaborator, and every request that
\* names an index carries the handle's id; the request of delete_snapshot
\* names no index, only the snapshot it was given.
C10_HandleUnchanged ==
  [][IsCall =>
       /\ HandlesKept
       /\ last'.op \notin {"create", "delete_snapshot"} => CarriesId(last')
       /\ last'.op = "delete_snapshot" =>
            /\ DOMAIN last'.req = {"type", "snapshotId"}
            /\ last'.req.snapshotId = last'.args.snapshot_id]_vars

C10_Witness ==
  /\ last.op = "delete"
  /\ last.out.ok
  /\ ~Live(srv, last.self.id)
  /\ last.self \in handles
  /\ last.req.indexId = last.self.id
====
